---- MODULE Spec2Model ----
(***************************************************************************)
(* Model of sentinel2yaral: the multi-region Gemini client                 *)
(* (GeminiRegionClient), the YARAL response cleaner, the conversion prompt *)
(* builder and the Streamlit host's handling of a conversion / evaluation. *)
(*                                                                         *)
(* Text is modelled as a sequence of characters so that                    *)
(* str.replace and str.strip are computed, not assumed.                    *)
(***************************************************************************)
EXTENDS Integers, Sequences, FiniteSets, TLC

VARIABLES
    regions,                    \* self.regions (AVAILABLE_REGIONS), fixed at construction
    model_name,                 \* self.model_name
    default_generation_config,  \* self.default_generation_config
    pc,                         \* position of the client: "idle" | "region" | "done"
    caller,                     \* who invoked generate_content: "none" | "convert" | "evaluate" | "direct"
    override,                   \* generation_config keyword the caller passed, or None
    kwargs,                     \* the callee's **kwargs dict of the running attempt (its generation_config entry, or None)
    attempt_number,             \* tenacity's retry_state.attempt_number
    ridx,                       \* index in self.regions of the region the for loop is at
    last_error,                 \* local last_error of the running attempt
    calls,                      \* log of the underlying model.generate_content calls of this invocation
    delays,                     \* log of the sleeps tenacity made in this invocation
    outcome,                    \* what generate_content gave its caller
    yaral_rule,                 \* st.session_state.yaral_rule
    evaluation_result,          \* st.session_state.evaluation_result
    output_file,                \* content save_yaral_rule last wrote under output/
    last_answered,              \* history: region that answered the invocation before this one, 0 if none did
    exc,                        \* exception that left the last operation, "none" if it returned
    st_error,                   \* what the last operation showed through st.error, "none" if nothing
    raw, once, twice,           \* sanitizer harness: a text, its cleaning, the cleaning of that
    examples_dir, rule_content, prompt  \* prompt harness: directory listing, input rule, built prompt

vars == <<regions, model_name, default_generation_config, pc, caller, override,
          kwargs, attempt_number, ridx, last_error, calls, delays, outcome,
          yaral_rule, evaluation_result, output_file, last_answered, exc, st_error,
          raw, once, twice,
          examples_dir, rule_content, prompt>>

clientVars == <<regions, model_name, default_generation_config, pc, caller, override,
                kwargs, attempt_number, ridx, last_error, calls, delays, outcome,
                yaral_rule, evaluation_result, output_file, last_answered, exc, st_error>>
sanitizeVars == <<raw, once, twice>>
promptVars == <<examples_dir, rule_content, prompt>>

None == "None"

\* optional text values (Python None or a str)
Nothing == [some |-> FALSE, v |-> <<>>]
Some(t) == [some |-> TRUE, v |-> t]
\* Python truthiness of None-or-str
Truthy(o) == o.some /\ o.v # <<>>

-----------------------------------------------------------------------------
(* Bounds of the model *)

MaxRegions == 3      \* longest region list explored
MaxSegments == 4     \* texts given to the cleaner are built from at most this many segments
MaxFiles == 3        \* most files in the examples directory

-----------------------------------------------------------------------------
(* Text helpers *)

RECURSIVE Concat(_)
Concat(ss) == IF ss = <<>> THEN <<>> ELSE Head(ss) \o Concat(Tail(ss))

StartsWith(s, p) == Len(s) >= Len(p) /\ SubSeq(s, 1, Len(p)) = p
EndsWith(s, p) == Len(s) >= Len(p) /\ SubSeq(s, Len(s) - Len(p) + 1, Len(s)) = p

Contains(s, p) == \E i \in 1..(Len(s) - Len(p) + 1) : SubSeq(s, i, i + Len(p) - 1) = p

\* Python str.replace(old, new): one left-to-right pass over non-overlapping matches.
RECURSIVE Replace(_, _, _)
Replace(s, old, new) ==
    IF Len(s) < Len(old) THEN s
    ELSE IF StartsWith(s, old)
         THEN new \o Replace(SubSeq(s, Len(old) + 1, Len(s)), old, new)
         ELSE <<Head(s)>> \o Replace(Tail(s), old, new)

Whitespace == {" ", "\n"}

RECURSIVE LStrip(_)
LStrip(s) == IF s # <<>> /\ Head(s) \in Whitespace THEN LStrip(Tail(s)) ELSE s

RECURSIVE RStrip(_)
RStrip(s) == IF s # <<>> /\ s[Len(s)] \in Whitespace THEN RStrip(SubSeq(s, 1, Len(s) - 1)) ELSE s

\* Python str.strip()
Strip(s) == LStrip(RStrip(s))

\* the backquote character (the lexer does not take it inside a string)
BT == "BACKQUOTE"
Fence == <<BT, BT, BT>>
YaralFence == Fence \o <<"y", "a", "r", "a", "l">>

\* mutant: only the language-tagged fence is removed
clean_yaral_content_tagged_only(yaral_content) ==
    Strip(Replace(yaral_content, YaralFence, <<>>))

clean_yaral_content(yaral_content) ==
    Strip(Replace(Replace(yaral_content, YaralFence, <<>>), Fence, <<>>))

-----------------------------------------------------------------------------
(* Configuration *)

available_models == <<"gemini-2.0-flash-001", "gemini-1.5-pro-002", "gemini-1.5-flash-002">>

Range(s) == {s[i] : i \in DOMAIN s}

\* identifiers a caller may hand to set_model
ModelNames == Range(available_models) \cup {"nonexistent-model"}

\* GenerationConfig values, told apart by identity
InitialConfig == "config(llm_config defaults)"
Configs == {InitialConfig, "config(sliders)"}
Overrides == {"config(override A)", "config(override B)"}

\* region identifiers (AVAILABLE_REGIONS is configuration), told apart by number
RegionIds == 1..MaxRegions

SeqsUpTo(S, n) == UNION {[1..k -> S] : k \in 0..n}
Injective(s) == \A i, j \in DOMAIN s : i # j => s[i] # s[j]
RegionLists == {s \in SeqsUpTo(RegionIds, MaxRegions) : s # <<>> /\ Injective(s)}

\* texts the remote model may answer with
ResponseTexts == { Fence \o <<"y", "a", "r", "a", "l", "\n", "R", "\n">> \o Fence,
                   <<" ">> }

-----------------------------------------------------------------------------
(* Exceptions: an exception is the chain <<e, e.__cause__, ...>> of its links *)

Link(type, region, attempt) == [type |-> type, region |-> region, attempt |-> attempt]
NoError == <<>>
\* the error of the underlying call made to region r in attempt n
RegionError(r, n) == <<Link("RegionError", r, n)>>
\* raise Exception("All regions failed. ...") from last_error
AllRegionsFailed(cause) == <<Link("AllRegionsFailed", 0, 0)>> \o cause
\* tenacity: raise RetryError(fut) from fut.exception()
RetryError(cause) == <<Link("RetryError", 0, 0)>> \o cause
ErrType(e) == IF e = <<>> THEN "none" ELSE Head(e).type
Cause(e) == Tail(e)

NoOutcome == [kind |-> "none", text |-> <<>>, error |-> NoError]
Returned(t) == [kind |-> "text", text |-> t, error |-> NoError]
Raised(e) == [kind |-> "error", text |-> <<>>, error |-> e]

-----------------------------------------------------------------------------
(* The retry decorator of generate_content *)

StopAttempts == 3      \* stop_after_attempt(3)
WaitMultiplier == 1    \* wait_exponential(multiplier=1, ...)
WaitMin == 2           \* wait_exponential(min=2, ...)
WaitMax == 10          \* wait_exponential(max=10)

RECURSIVE Pow(_, _)
Pow(b, e) == IF e = 0 THEN 1 ELSE b * Pow(b, e - 1)

Min(a, b) == IF a < b THEN a ELSE b
Max(a, b) == IF a > b THEN a ELSE b

\* mutant: the attempt budget is one short
stop_after_attempt_early(n) == n >= StopAttempts - 1

\* tenacity.stop_after_attempt: stop once attempt_number reaches the budget
stop_after_attempt(n) == n >= StopAttempts

\* mutant: the lower clamp is lost
wait_exponential_no_min(n) == Min(WaitMultiplier * Pow(2, n - 1), WaitMax)

\* tenacity.wait_exponential after failed attempt n (exp_base 2):
\* max(max(0, min), min(multiplier * 2 ** (n - 1), max))
wait_exponential(n) ==
    Max(Max(0, WaitMin), Min(WaitMultiplier * Pow(2, n - 1), WaitMax))

-----------------------------------------------------------------------------
(* GeminiRegionClient *)

\* mutant: no membership check
set_model_unchecked(current, name) == [model_name |-> name, exc |-> "none"]

\* set_model: a ValueError and no assignment unless the name is available
set_model(current, name) ==
    IF name \notin Range(available_models)
    THEN [model_name |-> current, exc |-> "ValueError"]
    ELSE [model_name |-> name, exc |-> "none"]

\* kwargs.pop('generation_config', default): what is left in kwargs
kwargs_after_pop(kw) == None

\* kwargs.pop('generation_config', default): the value it gives
gen_config(kw, default) == IF kw # None THEN kw ELSE default

\* mutant: every region gets its own bounded retry before the loop moves on
NextPosition_per_region(i, n, N) ==
    IF ~stop_after_attempt(n) THEN [kind |-> "retry", ridx |-> i, attempt |-> n + 1]
    ELSE IF i < N THEN [kind |-> "next_region", ridx |-> i + 1, attempt |-> 1]
    ELSE [kind |-> "give_up", ridx |-> i, attempt |-> n]

\* Where control goes after the call to region i failed in attempt n of N regions:
\* the for loop moves to the next region; past the last one the function raises
\* and the decorator either stops or sleeps and calls the function again.
NextPosition(i, n, N) ==
    IF i < N THEN [kind |-> "next_region", ridx |-> i + 1, attempt |-> n]
    ELSE IF stop_after_attempt(n) THEN [kind |-> "give_up", ridx |-> i, attempt |-> n]
    ELSE [kind |-> "retry", ridx |-> 1, attempt |-> n + 1]

CallRecord(ok, text, error) ==
    [region |-> regions[ridx], attempt |-> attempt_number, model |-> model_name,
     generation_config |-> gen_config(kwargs, default_generation_config),
     ok |-> ok, text |-> text, error |-> error]

hostVars == <<yaral_rule, evaluation_result, output_file, last_answered, exc, st_error>>
configVars == <<regions, model_name, default_generation_config>>

SetModel(name) ==
    /\ pc = "idle"
    /\ LET r == set_model(model_name, name) IN
        /\ model_name' = r.model_name
        /\ exc' = r.exc
    /\ st_error' = "none"
    /\ UNCHANGED <<regions, default_generation_config, pc, caller, override, kwargs,
                   attempt_number, ridx, last_error, calls, delays, outcome,
                   yaral_rule, evaluation_result, output_file, last_answered>>
    /\ UNCHANGED <<sanitizeVars, promptVars>>

UpdateGenerationConfig(cfg) ==
    /\ pc = "idle"
    /\ default_generation_config' = cfg
    /\ exc' = "none"
    /\ st_error' = "none"
    /\ UNCHANGED <<regions, model_name, pc, caller, override, kwargs,
                   attempt_number, ridx, last_error, calls, delays, outcome,
                   yaral_rule, evaluation_result, output_file, last_answered>>
    /\ UNCHANGED <<sanitizeVars, promptVars>>

\* mutant: sticky affinity, the loop starts at the region that answered last time
StartGenerate_sticky(who, cfg) ==
    /\ pc = "idle"
    /\ pc' = "region"
    /\ caller' = who
    /\ override' = cfg
    /\ kwargs' = cfg
    /\ attempt_number' = 1
    /\ ridx' = IF last_answered = 0 THEN 1
               ELSE CHOOSE j \in DOMAIN regions : regions[j] = last_answered
    /\ last_error' = NoError
    /\ calls' = <<>>
    /\ delays' = <<>>
    /\ outcome' = NoOutcome
    /\ exc' = "none"
    /\ st_error' = "none"
    /\ UNCHANGED <<configVars, yaral_rule, evaluation_result, output_file, last_answered>>
    /\ UNCHANGED <<sanitizeVars, promptVars>>

\* entry of generate_content through the retry decorator: attempt 1, first region
StartGenerate(who, cfg) ==
    /\ pc = "idle"
    /\ pc' = "region"
    /\ caller' = who
    /\ override' = cfg
    /\ kwargs' = cfg
    /\ attempt_number' = 1
    /\ ridx' = 1
    /\ last_error' = NoError
    /\ calls' = <<>>
    /\ delays' = <<>>
    /\ outcome' = NoOutcome
    /\ exc' = "none"
    /\ st_error' = "none"
    /\ UNCHANGED <<configVars, yaral_rule, evaluation_result, output_file, last_answered>>
    /\ UNCHANGED <<sanitizeVars, promptVars>>

\* mutant: the text is kept but the loop goes on to the regions that are left
CallSucceeds_no_return(text) ==
    /\ pc = "region"
    /\ calls' = Append(calls, CallRecord(TRUE, text, NoError))
    /\ kwargs' = kwargs_after_pop(kwargs)
    /\ outcome' = Returned(text)
    /\ IF ridx < Len(regions)
       THEN ridx' = ridx + 1 /\ pc' = "region"
       ELSE ridx' = ridx /\ pc' = "done"
    /\ UNCHANGED <<configVars, caller, override, attempt_number, last_error, delays, hostVars>>
    /\ UNCHANGED <<sanitizeVars, promptVars>>

\* the call to the current region answers: return response.text
CallSucceeds(text) ==
    /\ pc = "region"
    /\ calls' = Append(calls, CallRecord(TRUE, text, NoError))
    /\ kwargs' = kwargs_after_pop(kwargs)
    /\ outcome' = Returned(text)
    /\ pc' = "done"
    /\ UNCHANGED <<configVars, caller, override, attempt_number, ridx, last_error, delays, hostVars>>
    /\ UNCHANGED <<sanitizeVars, promptVars>>

\* the call to the current region raises: log, last_error = e, go on
CallFails ==
    /\ pc = "region"
    /\ LET e == RegionError(regions[ridx], attempt_number)
           nxt == NextPosition(ridx, attempt_number, Len(regions))
       IN
        /\ calls' = Append(calls, CallRecord(FALSE, <<>>, e))
        /\ ridx' = nxt.ridx
        /\ attempt_number' = nxt.attempt
        /\ CASE nxt.kind = "next_region" ->
                  /\ kwargs' = kwargs_after_pop(kwargs)
                  /\ last_error' = e
                  /\ UNCHANGED <<pc, delays, outcome>>
             [] nxt.kind = "retry" ->
                  \* the aggregate is raised, tenacity sleeps and calls the function anew
                  /\ kwargs' = override
                  /\ last_error' = NoError
                  /\ delays' = Append(delays, wait_exponential(attempt_number))
                  /\ UNCHANGED <<pc, outcome>>
             [] nxt.kind = "give_up" ->
                  /\ kwargs' = kwargs_after_pop(kwargs)
                  /\ last_error' = e
                  /\ outcome' = Raised(RetryError(AllRegionsFailed(e)))
                  /\ pc' = "done"
                  /\ UNCHANGED delays
    /\ UNCHANGED <<configVars, caller, override, hostVars>>
    /\ UNCHANGED <<sanitizeVars, promptVars>>

-----------------------------------------------------------------------------
(* The host: convert_to_yaral / evaluate_yaral_rule around generate_content, *)
(* and what main() does with what they return                                *)

\* mutant: no try/except around the call
convert_to_yaral_uncaught(res) ==
    IF res.kind = "text"
    THEN [value |-> Some(clean_yaral_content(res.text)), st_error |-> "none", exc |-> "none"]
    ELSE [value |-> Nothing, st_error |-> "none", exc |-> ErrType(res.error)]

\* convert_to_yaral from the call on: the cleaned text, or st.error and None
convert_to_yaral(res) ==
    IF res.kind = "text"
    THEN [value |-> Some(clean_yaral_content(res.text)), st_error |-> "none", exc |-> "none"]
    ELSE [value |-> Nothing, st_error |-> "Error converting rule", exc |-> "none"]

\* evaluate_yaral_rule from the call on: the text as it came, or st.error and None
evaluate_yaral_rule(res) ==
    IF res.kind = "text"
    THEN [value |-> Some(res.text), st_error |-> "none", exc |-> "none"]
    ELSE [value |-> Nothing, st_error |-> "Error evaluating rule", exc |-> "none"]

\* main(): if yaral_rule: st.session_state.yaral_rule = yaral_rule (same for the evaluation)
store_if_truthy(stored, r) == IF r.exc = "none" /\ Truthy(r.value) THEN r.value ELSE stored

ConvertClicked == StartGenerate("convert", None)

EvaluateClicked == Truthy(yaral_rule) /\ StartGenerate("evaluate", None)

DirectGenerate(cfg) == StartGenerate("direct", cfg)

\* generate_content is over: its frame, and the logs kept of it, are gone
ReturnToIdle ==
    /\ pc' = "idle"
    /\ caller' = "none"
    /\ override' = None
    /\ kwargs' = None
    /\ attempt_number' = 1
    /\ ridx' = 1
    /\ last_error' = NoError
    /\ calls' = <<>>
    /\ delays' = <<>>
    /\ outcome' = NoOutcome
    /\ last_answered' = IF outcome.kind = "text" THEN calls[Len(calls)].region ELSE 0

FinishConvert ==
    /\ pc = "done" /\ caller = "convert"
    /\ LET r == convert_to_yaral(outcome) IN
        /\ yaral_rule' = store_if_truthy(yaral_rule, r)
        \* save_yaral_rule(yaral_rule, ...) writes what was stored
        /\ output_file' = store_if_truthy(output_file, r)
        /\ exc' = r.exc
        /\ st_error' = r.st_error
    /\ ReturnToIdle
    /\ UNCHANGED <<configVars, evaluation_result>>
    /\ UNCHANGED <<sanitizeVars, promptVars>>

FinishEvaluate ==
    /\ pc = "done" /\ caller = "evaluate"
    /\ LET r == evaluate_yaral_rule(outcome) IN
        /\ evaluation_result' = store_if_truthy(evaluation_result, r)
        /\ exc' = r.exc
        /\ st_error' = r.st_error
    /\ ReturnToIdle
    /\ UNCHANGED <<configVars, yaral_rule, output_file>>
    /\ UNCHANGED <<sanitizeVars, promptVars>>

\* a caller that uses generate_content itself gets the text or the exception
FinishDirect ==
    /\ pc = "done" /\ caller = "direct"
    /\ exc' = ErrType(outcome.error)
    /\ st_error' = "none"
    /\ ReturnToIdle
    /\ UNCHANGED <<configVars, yaral_rule, evaluation_result, output_file>>
    /\ UNCHANGED <<sanitizeVars, promptVars>>

-----------------------------------------------------------------------------
(* Specification of the client and its host *)

IdleSanitize == raw = <<>> /\ once = Nothing /\ twice = Nothing
NoRule == [has |-> {}]
IdlePrompt == examples_dir = <<>> /\ rule_content = NoRule /\ prompt = Nothing

InitClient(rs) ==
    /\ regions = rs
    /\ model_name = available_models[1]
    /\ default_generation_config = InitialConfig
    /\ pc = "idle"
    /\ caller = "none"
    /\ override = None
    /\ kwargs = None
    /\ attempt_number = 1
    /\ ridx = 1
    /\ last_error = NoError
    /\ calls = <<>>
    /\ delays = <<>>
    /\ outcome = NoOutcome
    /\ yaral_rule = Nothing
    /\ evaluation_result = Nothing
    /\ output_file = Nothing
    /\ last_answered = 0
    /\ exc = "none"
    /\ st_error = "none"

Init ==
    /\ \E rs \in RegionLists : InitClient(rs)
    /\ IdleSanitize
    /\ IdlePrompt

Next ==
    \/ \E name \in ModelNames : SetModel(name)
    \/ \E cfg \in Configs : UpdateGenerationConfig(cfg)
    \/ ConvertClicked
    \/ EvaluateClicked
    \/ \E cfg \in Overrides \cup {None} : DirectGenerate(cfg)
    \/ \E text \in ResponseTexts : CallSucceeds(text)
    \/ CallFails
    \/ FinishConvert
    \/ FinishEvaluate
    \/ FinishDirect

Spec == Init /\ [][Next]_vars

-----------------------------------------------------------------------------
(* Sanitizer harness: clean_yaral_content applied to a text, then to its result *)

Segments == { <<BT>>, <<BT, BT>>, Fence, <<"y", "a", "r", "a", "l">>,
              <<" ">>, <<"\n">>, <<"R">> }
Texts == {Concat(ss) : ss \in SeqsUpTo(Segments, MaxSegments)}

SanitizeOnce ==
    /\ ~once.some
    /\ once' = Some(clean_yaral_content(raw))
    /\ UNCHANGED <<raw, twice>>
    /\ UNCHANGED <<clientVars, promptVars>>

SanitizeTwice ==
    /\ once.some /\ ~twice.some
    /\ twice' = Some(clean_yaral_content(once.v))
    /\ UNCHANGED <<raw, once>>
    /\ UNCHANGED <<clientVars, promptVars>>

InitSanitize ==
    /\ InitClient(<<1>>)
    /\ raw \in Texts
    /\ once = Nothing
    /\ twice = Nothing
    /\ IdlePrompt

NextSanitize == SanitizeOnce \/ SanitizeTwice

SpecSanitize == InitSanitize /\ [][NextSanitize]_vars

-----------------------------------------------------------------------------
(* Prompt harness: the prompt convert_to_yaral builds *)

RuleW == <<"r", "u", "l", "e">>
YaralExt == <<".", "y", "a", "r", "a", "l">>
YamlExt == <<".", "y", "a", "m", "l">>

\* files the examples directory may hold; an unreadable file makes open() raise
File(name, content, readable) == [name |-> name, content |-> content, readable |-> readable]
Files == { File(RuleW \o <<"1">> \o YaralExt, "text of rule1.yaral", TRUE),
           File(RuleW \o <<"2">> \o YaralExt, "text of rule2.yaral", TRUE),
           File(RuleW \o <<"9">> \o YaralExt, "text of rule9.yaral", FALSE),
           File(<<"n", "o", "t", "e", "s">> \o YaralExt, "text of notes.yaral", TRUE),
           File(RuleW \o <<"1">> \o YamlExt, "text of rule1.yaml", TRUE) }

\* os.listdir: the files in an order the file system picks
Listings == {l \in SeqsUpTo(Files, MaxFiles) : Injective(l)}

\* input rules: a mapping in which each of the fields the template reads may be missing
RuleKeys == {"name", "description", "severity", "tactics", "techniques"}
RuleValue(k) ==
    CASE k = "name" -> <<"Suspicious Login">>
      [] k = "description" -> <<"Detects a suspicious login">>
      [] k = "severity" -> <<"High">>
      [] k = "tactics" -> <<"InitialAccess", "Persistence">>
      [] k = "techniques" -> <<"T1078">>
Rules == {[has |-> h] : h \in SUBSET RuleKeys}

\* rule_content.get(key, default)
Get(rule, k, default) == IF k \in rule.has THEN RuleValue(k) ELSE default

\* sep.join(items), as prompt pieces
RECURSIVE Join(_, _)
Join(sep, items) ==
    IF items = <<>> THEN <<>>
    ELSE IF Len(items) = 1 THEN Head(items)
    ELSE Head(items) \o sep \o Join(sep, Tail(items))

\* load_yaral_examples: the rule*.yaral files that could be read, in listing order
load_yaral_examples(listing) ==
    SelectSeq(listing, LAMBDA f : /\ EndsWith(f.name, YaralExt)
                                  /\ StartsWith(f.name, RuleW)
                                  /\ f.readable)

ExamplesHeader == "Reference Examples of Well-Formatted YARAL Rules:"
ExampleLabel == "Example - "
ExampleFence == "fence"   \* the line of three backquotes around an example

\* f"Example - {filename}:\n<fence>\n{content}\n<fence>"
ExampleBlock(f) == <<ExampleLabel, f.name, ":", "\n", ExampleFence, "\n", f.content, "\n", ExampleFence>>

ExampleBlocks(yaral_examples) ==
    [i \in DOMAIN yaral_examples |-> ExampleBlock(yaral_examples[i])]

\* mutant: a placeholder block stands in for an empty example list
examples_text_placeholder(yaral_examples) ==
    IF yaral_examples = <<>> THEN <<ExampleLabel, "(none)">>
    ELSE Join(<<"\n\n">>, ExampleBlocks(SelectSeq(yaral_examples, LAMBDA f : EndsWith(f.name, YaralExt))))

\* "\n\n".join(blocks of the examples whose name ends with .yaral)
examples_text(yaral_examples) ==
    Join(<<"\n\n">>, ExampleBlocks(SelectSeq(yaral_examples, LAMBDA f : EndsWith(f.name, YaralExt))))

\* yaml.dump(rule_content): the keys in sorted order, each with its value
DumpKey(rule, k) == IF k \in rule.has THEN <<k, ": ">> \o <<RuleValue(k)>> \o <<"\n">> ELSE <<>>
YamlDump(rule) ==
    DumpKey(rule, "description") \o DumpKey(rule, "name") \o DumpKey(rule, "severity")
        \o DumpKey(rule, "tactics") \o DumpKey(rule, "techniques")

\* the f-string of convert_to_yaral, as the sequence of its pieces
BuildPrompt(rule, yaral_examples) ==
    <<"Task: Convert the provided Microsoft Sentinel detection rule into a Chronicle Yara-L rule format.", "\n\n",
      "Input Rule Details:", "\n",
      "Name: ">> \o Get(rule, "name", <<"Unknown">>) \o <<"\n",
      "Description: ">> \o Get(rule, "description", <<"No description provided">>) \o <<"\n",
      "Severity: ">> \o Get(rule, "severity", <<"Medium">>) \o <<"\n",
      "MITRE Tactics: ">> \o Join(<<", ">>, [i \in DOMAIN Get(rule, "tactics", <<>>) |-> <<Get(rule, "tactics", <<>>)[i]>>]) \o <<"\n",
      "MITRE Techniques: ">> \o Join(<<", ">>, [i \in DOMAIN Get(rule, "techniques", <<>>) |-> <<Get(rule, "techniques", <<>>)[i]>>]) \o <<"\n\n",
      "Original Rule Content:", "\n">> \o YamlDump(rule) \o <<"\n\n",
      "mapping_reference", "\n\n",
      ExamplesHeader, "\n">> \o examples_text(yaral_examples) \o <<"\n\n",
      "Output Requirements:", "\n",
      "requirements 1-6", "\n\n",
      "The author of the rule should always be \"Gemini\"", "\n",
      "Please convert this rule to Chronicle YARAL format ...">>

\* main() converts only if rule_content; the prompt is what generate_content is given
BuildConversionPrompt ==
    /\ ~prompt.some
    /\ rule_content.has # {}
    /\ prompt' = Some(BuildPrompt(rule_content, load_yaral_examples(examples_dir)))
    /\ UNCHANGED <<examples_dir, rule_content>>
    /\ UNCHANGED <<clientVars, sanitizeVars>>

InitPrompt ==
    /\ InitClient(<<1>>)
    /\ IdleSanitize
    /\ examples_dir \in Listings
    /\ rule_content \in Rules
    /\ prompt = Nothing

NextPrompt == BuildConversionPrompt

SpecPrompt == InitPrompt /\ [][NextPrompt]_vars

-----------------------------------------------------------------------------
(* Properties *)

\* the underlying calls made to region r in this invocation, in order
CallsTo(r) == SelectSeq(calls, LAMBDA c : c.region = r)

\* every call to each of the first K listed regions failed and the first
\* call to region K+1 succeeded
FirstKFailThenSuccess(K) ==
    /\ K < Len(regions)
    /\ \A i \in DOMAIN calls : (\E j \in 1..K : calls[i].region = regions[j]) => ~calls[i].ok
    /\ CallsTo(regions[K + 1]) # <<>>
    /\ Head(CallsTo(regions[K + 1])).ok

\* C1: when every call to the first K regions fails and the first call to
\* region K+1 succeeds, generate_content returns exactly the text region K+1
\* produced and no region listed after K+1 is called.
C1_FailoverStopsAtFirstSuccess ==
    \A K \in 0..(Len(regions) - 1) :
        FirstKFailThenSuccess(K) =>
            /\ outcome = Returned(Head(CallsTo(regions[K + 1])).text)
            /\ \A j \in (K + 2)..Len(regions) : CallsTo(regions[j]) = <<>>

\* C1 witness: a region failed, the next one answered, a region listed after it
\* was left uncalled, and the call is over
C1_Witness ==
    /\ pc = "done"
    /\ \E K \in 1..(Len(regions) - 2) : FirstKFailThenSuccess(K)

\* r1 always fails and r2 succeeds on its first attempt, in a list of two
TwoRegionScenario ==
    /\ pc = "done"
    /\ Len(regions) = 2
    /\ \A i \in DOMAIN calls : calls[i].region = regions[1] => ~calls[i].ok
    /\ CallsTo(regions[2]) # <<>>
    /\ Head(CallsTo(regions[2])).ok

\* C2 as stated: a failing region gets 3 attempts before the client advances
\* to the next region; in the two-region scenario generate_content returns
\* r2's text after exactly 3 calls to r1 and exactly 1 call to r2.
C2_ThreeAttemptsBeforeAdvancing ==
    /\ \A i \in 1..(Len(calls) - 1) :
          (~calls[i].ok /\ calls[i + 1].region # calls[i].region) =>
              Len(SelectSeq(SubSeq(calls, 1, i), LAMBDA c : c.region = calls[i].region)) = 3
    /\ TwoRegionScenario =>
          /\ outcome = Returned(Head(CallsTo(regions[2])).text)
          /\ Len(CallsTo(regions[1])) = 3
          /\ Len(CallsTo(regions[2])) = 1

\* position in the region list of the region a call went to
IndexOf(r) == CHOOSE j \in DOMAIN regions : regions[j] = r

\* C2 amended: a failing region gets one attempt per pass over the region list
\* before the client advances (the budget of 3 attempts counts whole passes, so
\* no region is called more than 3 times), and a region that succeeds is called
\* only up to its first success; in the two-region scenario generate_content
\* returns r2's text after exactly 1 call to r1 and exactly 1 call to r2.
C2_OneAttemptPerPass ==
    /\ \A i \in 1..(Len(calls) - 1) :
          /\ ~calls[i].ok
          /\ IF IndexOf(calls[i].region) < Len(regions)
             THEN /\ IndexOf(calls[i + 1].region) = IndexOf(calls[i].region) + 1
                  /\ calls[i + 1].attempt = calls[i].attempt
             ELSE /\ IndexOf(calls[i + 1].region) = 1
                  /\ calls[i + 1].attempt = calls[i].attempt + 1
    /\ \A r \in Range(regions) : Len(CallsTo(r)) <= 3
    /\ TwoRegionScenario =>
          /\ outcome = Returned(Head(CallsTo(regions[2])).text)
          /\ Len(CallsTo(regions[1])) = 1
          /\ Len(CallsTo(regions[2])) = 1

\* C2 witness: the two-region scenario has run to its end
C2_Witness == TwoRegionScenario

\* C3: when every underlying call fails, one generate_content invocation makes
\* exactly 3 * N calls, 3 to each region, before it fails, and never more.
C3_ExactlyThreeTimesN ==
    /\ Len(calls) <= 3 * Len(regions)
    /\ (pc = "done" /\ \A i \in DOMAIN calls : ~calls[i].ok) =>
          /\ outcome.kind = "error"
          /\ Len(calls) = 3 * Len(regions)
          /\ \A r \in Range(regions) : Len(CallsTo(r)) = 3
    /\ (pc # "done" /\ \A i \in DOMAIN calls : ~calls[i].ok) => outcome.kind = "none"

\* C3 witness: an invocation over at least two regions has failed
C3_Witness ==
    /\ pc = "done"
    /\ outcome.kind = "error"
    /\ Len(regions) >= 2

\* C4 as stated: when every region is exhausted the caller of generate_content
\* gets the aggregate all-regions-failed error itself, whose cause is the error
\* of the last attempt on the last-listed region.
C4_AggregateErrorSurfaced ==
    (pc = "done" /\ outcome.kind = "error") =>
        /\ ErrType(outcome.error) = "AllRegionsFailed"
        /\ Cause(outcome.error) = calls[Len(calls)].error
        /\ calls[Len(calls)].region = regions[Len(regions)]

\* C5 as stated: every underlying call of an invocation is given the caller's
\* override when one was passed, and the configured default only when none was.
C5_OverrideOnEveryCall ==
    \A i \in DOMAIN calls :
        calls[i].generation_config =
            IF override # None THEN override ELSE default_generation_config

\* C6: set_model with a name outside the available models raises and leaves
\* the active model as it was; with an available name it makes that name the
\* active model, which every later underlying call uses; the active model is
\* always one of the available models.
C6_SetModelValidated ==
    /\ [][\A name \in ModelNames :
            SetModel(name) =>
                IF name \in Range(available_models)
                THEN model_name' = name /\ exc' = "none"
                ELSE model_name' = model_name /\ exc' = "ValueError"]_vars
    /\ [](model_name \in Range(available_models))
    /\ [](\A i \in DOMAIN calls : calls[i].model = model_name)

\* C6 witness: set_model raised on an unavailable name and the model chosen by
\* an earlier set_model stayed
C6_Witness ==
    /\ exc = "ValueError"
    /\ model_name = available_models[3]

\* C7: clean_yaral_content is idempotent, also on texts where taking out a
\* language-tagged fence joins the backquotes around it into a new fence.
C7_SanitizeIdempotent == twice.some => twice = once

\* removing the tagged fences of x leaves a fence that x did not hold outside them
JoinsIntoFence(x) ==
    /\ Contains(x, YaralFence)
    /\ ~Contains(Replace(x, YaralFence, <<"|">>), Fence)
    /\ Contains(Replace(x, YaralFence, <<>>), Fence)

\* C7 witness: a text of the joining kind has been cleaned twice
C7_Witness == twice.some /\ JoinsIntoFence(raw)

\* C8: in one invocation the backoff delays never decrease, the first is at
\* least 2 and none exceeds 10.
C8_BackoffBounded ==
    /\ \A i \in DOMAIN delays : delays[i] <= 10
    /\ \A i \in 2..Len(delays) : delays[i - 1] <= delays[i]
    /\ delays # <<>> => delays[1] >= 2

\* C8 witness: an invocation has slept between all of its attempts
C8_Witness == Len(delays) = 2

\* the examples handed to the prompt, for the directory listing of the state
LoadedExamples == load_yaral_examples(examples_dir)

\* C9 as stated: with no reference example the prompt holds no example section
\* at all, neither its header nor any example label or delimiter.
C9_NoExampleSection ==
    (prompt.some /\ LoadedExamples = <<>>) =>
        /\ ExamplesHeader \notin Range(prompt.v)
        /\ ExampleLabel \notin Range(prompt.v)
        /\ ExampleFence \notin Range(prompt.v)

\* C9 amended: with no reference example the prompt holds no example label and
\* no example delimiter, but the header of the example section is still there,
\* followed by an empty block.
C9_HeaderWithEmptyBlock ==
    (prompt.some /\ LoadedExamples = <<>>) =>
        /\ ExampleLabel \notin Range(prompt.v)
        /\ ExampleFence \notin Range(prompt.v)
        /\ \E i \in DOMAIN prompt.v :
              /\ prompt.v[i] = ExamplesHeader
              /\ SubSeq(prompt.v, i + 1, i + 3) = <<"\n", "\n\n", "Output Requirements:">>

\* C9 witness: a prompt was built from a directory that holds files, none of
\* them a readable rule*.yaral
C9_Witness == prompt.some /\ LoadedExamples = <<>> /\ examples_dir # <<>>

\* C10: a conversion whose generate_content call fails raises nothing to the
\* host and leaves the stored conversion and evaluation results as they were;
\* the stored conversion result changes only when a conversion returns a
\* non-empty artifact.
C10_FailedConversionKeepsState ==
    [][ /\ (pc = "done" /\ caller = "convert" /\ outcome.kind = "error") =>
              /\ yaral_rule' = yaral_rule
              /\ evaluation_result' = evaluation_result
              /\ exc' = "none"
        /\ (caller = "convert" \/ caller' = "convert") =>
              /\ evaluation_result' = evaluation_result
              /\ exc' = "none"
        /\ yaral_rule' # yaral_rule =>
              /\ pc = "done" /\ caller = "convert" /\ outcome.kind = "text"
              /\ clean_yaral_content(outcome.text) # <<>>
              /\ yaral_rule' = Some(clean_yaral_content(outcome.text)) ]_vars

\* C10 witness: a conversion has just failed while a rule and an evaluation
\* from before are stored
C10_Witness ==
    /\ pc = "idle"
    /\ st_error = "Error converting rule"
    /\ Truthy(yaral_rule)
    /\ Truthy(evaluation_result)

\* C11: in every invocation the first underlying call goes to the first-listed
\* region and regions are called in list order: a region is called only after
\* every region listed before it has failed in that invocation (in that same
\* pass), whichever region answered the invocation before, and the region list
\* is never reordered.
C11_FixedListOrder ==
    /\ [](calls # <<>> => calls[1].region = regions[1])
    /\ [](\A i \in DOMAIN calls :
            \A j \in 1..(IndexOf(calls[i].region) - 1) :
                \E k \in 1..(i - 1) :
                    /\ calls[k].region = regions[j]
                    /\ ~calls[k].ok
                    /\ calls[k].attempt = calls[i].attempt)
    /\ [][regions' = regions]_vars

\* C11 witness: the invocation before was answered by the second-listed
\* region, and this one has again called the first region, then the second
C11_Witness ==
    /\ Len(regions) >= 2
    /\ last_answered = regions[2]
    /\ Len(calls) >= 2
    /\ calls[2].region = regions[2]

====
